---- MODULE Spec2Model ----
(***************************************************************************)
(* Model of the Discord leaderboard bot (src/main.py): the !graveyard      *)
(* command with its global cooldown, the dropdown view and its timeout,    *)
(* the dropdown callback, the database fetch and the embed formatter.      *)
(***************************************************************************)
EXTENDS Integers, Sequences, FiniteSets, TLC

(***************************************************************************)
(* Program constants                                                       *)
(***************************************************************************)
COOLDOWN_SECONDS == 300

VIEW_TIMEOUT == 300

DEFAULT_LIMIT == 10

(***************************************************************************)
(* Bounds of the model                                                     *)
(***************************************************************************)
\* wall clock (time.time()) when the process starts, in seconds
StartTime == 1000

\* the clock stops advancing here
MaxTime == 1900

\* number of !graveyard invocations
MaxCmds == 2

\* number of dropdown selections
MaxSel == 2

\* number of fetch_leaderboard_data calls in SpecFetch
MaxFetches == 2

\* longest row sequence handed to create_leaderboard_embed in SpecRender
MaxRows == 2

\* amounts by which the clock advances in one step
TickSteps == {100, 200}

(***************************************************************************)
(* LEADERBOARDS registry                                                   *)
(***************************************************************************)
KeyOrder == <<"general", "3ull", "dragon", "gingerbread", "promo", "squeak", "algo apes">>

Keys == {KeyOrder[n] : n \in 1..Len(KeyOrder)}

LEADERBOARDS ==
    [k \in Keys |->
        CASE k = "general"     -> [name |-> "General Leaderboard", table |-> "Leaderboard", join_users |-> TRUE]
          [] k = "3ull"        -> [name |-> "Playa3ull", table |-> "3ull_tournament_leaderboard", join_users |-> FALSE]
          [] k = "dragon"      -> [name |-> "Ancient Dragon Alliance", table |-> "leaderboard_dragon", join_users |-> FALSE]
          [] k = "gingerbread" -> [name |-> "Gingerbread Squad", table |-> "leaderboard_gingerbread", join_users |-> FALSE]
          [] k = "promo"       -> [name |-> "Promo Facie", table |-> "leaderboard_promo", join_users |-> FALSE]
          [] k = "squeak"      -> [name |-> "World of Squeak", table |-> "leaderboard_squeak", join_users |-> FALSE]
          [] k = "algo apes"   -> [name |-> "Algo Apes", table |-> "algoapes_tournament_leaderboard", join_users |-> FALSE]]

\* a dropdown value that is no key of the registry
UnknownKey == "nope"

AnyKeys == Keys \cup {UnknownKey}

\* LEADERBOARDS.get(key) is truthy
HasConfig(key) == key \in DOMAIN LEADERBOARDS

(***************************************************************************)
(* Data Fetcher: get_database_connection and fetch_leaderboard_data        *)
(***************************************************************************)
\* A row as cursor.fetchall() returns it with dictionary=True
Row(nickname, kills, levels_reached) ==
    [nickname |-> nickname, kills |-> kills, levels_reached |-> levels_reached]

\* Row sequences the database answers with in Spec and SpecFetch
ResultSets == {<<>>, <<Row("Ann", 1500, 20), Row("Bo", 900, 20)>>}

\* What the database does during one call: whether connect(), cursor(),
\* execute() and fetchall() succeed (FALSE: they raise mysql.connector.Error),
\* what is_connected() answers in the finally block, and the rows fetched.
DbBehaviours ==
    [connect : BOOLEAN, cursor : BOOLEAN, execute : BOOLEAN, fetchall : BOOLEAN,
     connected : BOOLEAN, rows : ResultSets]

NoQuery == [shape |-> "none", select |-> "", from |-> "", join |-> "",
            order_by |-> <<>>, limit |-> ""]

\* get_database_connection: the connection, or None when connect() raises
get_database_connection(db) == IF db.connect THEN "open" ELSE "None"

\* the query variant that tests a key other than "3ull"
BuildQueryWrongKey(key) ==
    LET config == LEADERBOARDS[key] IN
    IF config.join_users
    THEN [shape |-> "join", select |-> "u.nickname, l.kills, l.levels_reached",
          from |-> config.table, join |-> "Users u ON l.user_id = u.user_id",
          order_by |-> <<"levels_reached DESC", "kills DESC">>, limit |-> "%s"]
    ELSE IF key = "dragon"
    THEN [shape |-> "user_id", select |-> "user_id as nickname, kills, levels_reached",
          from |-> config.table, join |-> "",
          order_by |-> <<"levels_reached DESC", "kills DESC">>, limit |-> "%s"]
    ELSE [shape |-> "username", select |-> "username as nickname, kills, levels_reached",
          from |-> config.table, join |-> "",
          order_by |-> <<"levels_reached DESC", "kills DESC">>, limit |-> "%s"]

\* The query text chosen for a key of the registry
BuildQuery(key) ==
    LET config == LEADERBOARDS[key] IN
    IF config.join_users
    THEN [shape |-> "join", select |-> "u.nickname, l.kills, l.levels_reached",
          from |-> config.table, join |-> "Users u ON l.user_id = u.user_id",
          order_by |-> <<"levels_reached DESC", "kills DESC">>, limit |-> "%s"]
    ELSE IF key = "3ull"
    THEN [shape |-> "user_id", select |-> "user_id as nickname, kills, levels_reached",
          from |-> config.table, join |-> "",
          order_by |-> <<"levels_reached DESC", "kills DESC">>, limit |-> "%s"]
    ELSE [shape |-> "username", select |-> "username as nickname, kills, levels_reached",
          from |-> config.table, join |-> "",
          order_by |-> <<"levels_reached DESC", "kills DESC">>, limit |-> "%s"]

\* The try block: the value it returns (from the body or from the except
\* clause), whether the name cursor got bound, and the execute() calls made.
FetchTry(key, limit, db) ==
    IF ~db.cursor
    THEN [result |-> <<>>, cursor |-> "unbound", query |-> NoQuery, executed |-> <<>>]
    ELSE LET query == BuildQuery(key)
             call  == [query |-> query, params |-> <<limit>>]
         IN  IF db.execute /\ db.fetchall
             THEN [result |-> db.rows, cursor |-> "open", query |-> query, executed |-> <<call>>]
             ELSE [result |-> <<>>, cursor |-> "open", query |-> query, executed |-> <<call>>]

\* The finally block: closes cursor and connection when is_connected();
\* cursor.close() on the unbound name raises and replaces the return.
FetchFinally(body, db) ==
    IF db.connected
    THEN IF body.cursor = "unbound"
         THEN [result |-> <<>>, raised |-> "UnboundLocalError", conn |-> "open",
               cursor |-> "unbound", query |-> body.query, executed |-> body.executed,
               opened |-> 1]
         ELSE [result |-> body.result, raised |-> "", conn |-> "closed",
               cursor |-> "closed", query |-> body.query, executed |-> body.executed,
               opened |-> 1]
    ELSE [result |-> body.result, raised |-> "", conn |-> "lost",
          cursor |-> body.cursor, query |-> body.query, executed |-> body.executed,
          opened |-> 1]

\* An early return of the empty list, before the try block
FetchEarly ==
    [result |-> <<>>, raised |-> "", conn |-> "none", cursor |-> "unbound",
     query |-> NoQuery, executed |-> <<>>, opened |-> 0]

\* fetch_leaderboard_data(leaderboard_key, limit): what it returns or raises,
\* and the state it leaves its connection and cursor in
fetch_leaderboard_data(key, limit, db) ==
    IF ~HasConfig(key) THEN FetchEarly
    ELSE IF get_database_connection(db) = "None" THEN FetchEarly
    ELSE FetchFinally(FetchTry(key, limit, db), db)

(***************************************************************************)
(* Presentation Formatter: create_leaderboard_embed                        *)
(***************************************************************************)
DigitChars == <<"0", "1", "2", "3", "4", "5", "6", "7", "8", "9">>

\* str(n) for n >= 0, as a sequence of characters
RECURSIVE Digits(_)
Digits(n) == IF n < 10 THEN <<DigitChars[n + 1]>>
             ELSE Digits(n \div 10) \o <<DigitChars[(n % 10) + 1]>>

\* str(n) for any integer
Str(n) == IF n < 0 THEN <<"-">> \o Digits(-n) ELSE Digits(n)

\* a comma before every group of three digits, counted from the right
RECURSIVE Grouped(_)
Grouped(ds) ==
    IF Len(ds) <= 3 THEN ds
    ELSE Grouped(SubSeq(ds, 1, Len(ds) - 3)) \o <<",">> \o SubSeq(ds, Len(ds) - 2, Len(ds))

\* f"{kills:,}"
KillsFormatted(kills) ==
    IF kills < 0 THEN <<"-">> \o Grouped(Digits(-kills)) ELSE Grouped(Digits(kills))

\* the formatting variant that skips the thousands separator
LeaderboardLineUngrouped(i, player) ==
    Str(i) \o <<". **", player.nickname, "** - ">> \o Str(player.levels_reached)
      \o <<" waves survived, ">> \o Str(player.kills) \o <<" enemies destroyed", "\n">>

\* One line of leaderboard_text, as the sequence of its pieces
LeaderboardLine(i, player) ==
    Str(i) \o <<". **", player.nickname, "** - ">> \o Str(player.levels_reached)
      \o <<" waves survived, ">> \o KillsFormatted(player.kills)
      \o <<" enemies destroyed", "\n">>

\* leaderboard_text after the loop over enumerate(data, 1) has handled n rows
RECURSIVE LeaderboardText(_, _)
LeaderboardText(data, n) ==
    IF n = 0 THEN <<>>
    ELSE LeaderboardText(data, n - 1) \o LeaderboardLine(n, data[n])

NoEmbed == [title |-> "", color |-> 0, footer |-> "", description |-> <<>>]

\* LEADERBOARDS[leaderboard_key] raises KeyError for a key not in the registry
EmbedRaises(key) == ~HasConfig(key)

\* create_leaderboard_embed(leaderboard_key, data), for a key of the registry
create_leaderboard_embed(key, data) ==
    [title       |-> LEADERBOARDS[key].name,
     color       |-> 0,
     footer      |-> "Graveyard Antics TD",
     description |-> IF data = <<>>
                     THEN <<"No players found in this leaderboard.">>
                     ELSE LeaderboardText(data, Len(data))]

(***************************************************************************)
(* State                                                                   *)
(***************************************************************************)
VARIABLES
    clock,                  \* time.time(), in seconds
    last_leaderboard_time,  \* the global cooldown timestamp
    cmds,                   \* the !graveyard invocations, in order of arrival
    views,                  \* views[c]: the LeaderboardView of invocation c
    ints,                   \* the dropdown selections and their callbacks
    fcalls, fin, fout, fopen,   \* SpecFetch: calls made, last input, last outcome, connections left open
    rin, rout               \* SpecRender: the formatter's input and output

vars == <<clock, last_leaderboard_time, cmds, views, ints, fcalls, fin, fout, fopen, rin, rout>>

ctlVars == <<clock, last_leaderboard_time, cmds, views, ints>>

fetchVars == <<fcalls, fin, fout, fopen>>

renderVars == <<rin, rout>>

Cmds == 1..MaxCmds

Sels == 1..MaxSel

NewCmd == [pc |-> "idle", current_time |-> 0, accepted |-> FALSE, minutes |-> 0, seconds |-> 0]

NoView == [state |-> "none", expiry |-> 0, disabled |-> FALSE]

NewInt == [pc |-> "none", view |-> 0, key |-> "", calls |-> 0, responded |-> FALSE,
           log |-> <<>>, data |-> <<>>, embed |-> NoEmbed, sent |-> FALSE,
           raisedAt |-> "", via |-> "", attempts |-> 0,
           delivered |-> FALSE, propagated |-> FALSE]

NoFetchInput == [key |-> "", limit |-> 0,
                 db |-> [connect |-> FALSE, cursor |-> FALSE, execute |-> FALSE,
                         fetchall |-> FALSE, connected |-> FALSE, rows |-> <<>>]]

NoRenderInput == [key |-> "", data |-> <<>>]

CtlInit ==
    /\ clock = StartTime
    /\ last_leaderboard_time = 0
    /\ cmds = [c \in Cmds |-> NewCmd]
    /\ views = [c \in Cmds |-> NoView]
    /\ ints = [i \in Sels |-> NewInt]

FetchIdle ==
    /\ fcalls = 0
    /\ fin = NoFetchInput
    /\ fout = FetchEarly
    /\ fopen = 0

RenderIdle ==
    /\ rin = NoRenderInput
    /\ rout = NoEmbed

Init == CtlInit /\ FetchIdle /\ RenderIdle

(***************************************************************************)
(* The !graveyard command: leaderboards_command                            *)
(***************************************************************************)
\* the cooldown test that compares seconds against minutes
CooldownActiveMinutes(current_time, last) ==
    current_time - last < COOLDOWN_SECONDS \div 60

\* current_time - last_leaderboard_time < COOLDOWN_SECONDS
CooldownActive(current_time, last) ==
    current_time - last < COOLDOWN_SECONDS

\* the variant that stamps the time of every invocation
StampAlways(current_time, last) == current_time

\* the variant whose assignment never reaches the global
StampNever(current_time, last) == last

\* last_leaderboard_time when the handler reaches its ctx.send
StampedTime(current_time, last) ==
    IF CooldownActive(current_time, last) THEN last ELSE current_time

\* the view a handler holds when it reaches its ctx.send: LeaderboardView()
\* with its dropdown enabled, or none on the cooldown path
LeaderboardView(current_time, last) ==
    IF CooldownActive(current_time, last) THEN NoView
    ELSE [state |-> "created", expiry |-> 0, disabled |-> FALSE]

\* the handler from its start to its ctx.send
leaderboards_command(c) ==
    /\ cmds[c].pc = "idle"
    /\ c > 1 => cmds[c - 1].pc # "idle"
    /\ LET current_time == clock
           last == last_leaderboard_time
           remaining_time == COOLDOWN_SECONDS - (current_time - last)
       IN  /\ last_leaderboard_time' = StampedTime(current_time, last)
           /\ views' = [views EXCEPT ![c] = LeaderboardView(current_time, last)]
           /\ cmds' = [cmds EXCEPT ![c] =
                  IF CooldownActive(current_time, last)
                  THEN [pc |-> "sendNotice", current_time |-> current_time,
                        accepted |-> FALSE, minutes |-> remaining_time \div 60,
                        seconds |-> remaining_time % 60]
                  ELSE [pc |-> "sendMenu", current_time |-> current_time,
                        accepted |-> TRUE, minutes |-> 0, seconds |-> 0]]
    /\ UNCHANGED <<clock, ints, fetchVars, renderVars>>

\* ctx.send of the cooldown notice returns or raises; the handler ends
NoticeSent(c) ==
    /\ cmds[c].pc = "sendNotice"
    /\ \E ok \in BOOLEAN :
         cmds' = [cmds EXCEPT ![c].pc = IF ok THEN "done" ELSE "failed"]
    /\ UNCHANGED <<clock, last_leaderboard_time, views, ints, fetchVars, renderVars>>

\* ctx.send(embed=embed, view=view) returns (the view starts listening, its
\* timeout running) or raises (the view is never attached to a message)
MenuSent(c) ==
    /\ cmds[c].pc = "sendMenu"
    /\ \E ok \in BOOLEAN :
         /\ cmds' = [cmds EXCEPT ![c].pc = IF ok THEN "done" ELSE "failed"]
         /\ views' = IF ok
                     THEN [views EXCEPT ![c].state = "listening",
                                        ![c].expiry = clock + VIEW_TIMEOUT]
                     ELSE views
    /\ UNCHANGED <<clock, last_leaderboard_time, ints, fetchVars, renderVars>>

(***************************************************************************)
(* LeaderboardView: timeout                                                *)
(***************************************************************************)
\* the variant that leaves the items enabled
on_timeout_skip(view) == view

\* on_timeout: every child of the view is disabled
on_timeout(view) == [view EXCEPT !.disabled = TRUE]

\* the view's timeout (timeout=300 since it was sent or last used) expires
ViewTimeout(v) ==
    /\ views[v].state = "listening"
    /\ clock >= views[v].expiry
    /\ views' = [views EXCEPT ![v] = [on_timeout(views[v]) EXCEPT !.state = "finished"]]
    /\ UNCHANGED <<clock, last_leaderboard_time, cmds, ints, fetchVars, renderVars>>

\* time passes; a due timeout runs before the clock moves past it
Tick ==
    /\ \E d \in TickSteps :
         /\ clock + d <= MaxTime
         /\ \A v \in Cmds : views[v].state = "listening" => clock + d <= views[v].expiry
         /\ clock' = clock + d
    /\ UNCHANGED <<last_leaderboard_time, cmds, views, ints, fetchVars, renderVars>>

(***************************************************************************)
(* LeaderboardDropdown.callback                                            *)
(***************************************************************************)
\* the options of the dropdown: one per registry entry, in insertion order
DropdownOptions == [n \in 1..Len(KeyOrder) |->
                       [label |-> LEADERBOARDS[KeyOrder[n]].name, value |-> KeyOrder[n]]]

\* the values a selection carries in this model: self.values[0]
SelectedValues == AnyKeys

\* the callback variant that starts fetching without deferring
callback_enter_nodefer(v) ==
    [NewInt EXCEPT !.pc = "fetch", !.view = v, !.calls = 1]

\* the callback from its start to await interaction.response.defer()
callback_enter(v) ==
    [NewInt EXCEPT !.pc = "defer", !.view = v, !.calls = 1]

\* the except clause: which channel carries "Something went wrong!"
callback_except(rec, stage) ==
    [rec EXCEPT !.pc = "notice", !.raisedAt = stage, !.attempts = @ + 1,
                !.via = IF ~rec.responded THEN "response" ELSE "followup"]

\* the variant whose inner handler lets the failure of the notice escape
notice_result_uncaught(rec, ok) ==
    IF ok THEN [rec EXCEPT !.pc = "done", !.delivered = TRUE]
    ELSE [rec EXCEPT !.pc = "crashed", !.propagated = TRUE]

\* the inner try/except around the notice: a failure is swallowed
notice_result(rec, ok) == [rec EXCEPT !.pc = "done", !.delivered = ok]

\* a selection on a listening view: the library refreshes the view's timeout
\* and invokes the callback
Select(i) ==
    /\ ints[i].pc = "none"
    /\ i > 1 => ints[i - 1].pc # "none"
    /\ \E v \in Cmds :
         /\ views[v].state = "listening"
         /\ ints' = [ints EXCEPT ![i] = callback_enter(v)]
         /\ views' = [views EXCEPT ![v].expiry = clock + VIEW_TIMEOUT]
    /\ UNCHANGED <<clock, last_leaderboard_time, cmds, fetchVars, renderVars>>

\* a selection on a view that timed out: no callback is invoked
SelectExpired(i) ==
    /\ ints[i].pc = "none"
    /\ i > 1 => ints[i - 1].pc # "none"
    /\ \E v \in Cmds :
         /\ views[v].state = "finished"
         /\ ints' = [ints EXCEPT ![i] = [NewInt EXCEPT !.pc = "ignored", !.view = v]]
    /\ UNCHANGED <<clock, last_leaderboard_time, cmds, views, fetchVars, renderVars>>

\* interaction.response.defer() returns or raises
DeferDone(i) ==
    /\ ints[i].pc = "defer"
    /\ \E ok \in BOOLEAN :
         ints' = [ints EXCEPT ![i] =
                    IF ok THEN [@ EXCEPT !.pc = "fetch", !.responded = TRUE,
                                         !.log = Append(@, "acknowledge")]
                    ELSE callback_except(@, "acknowledge")]
    /\ UNCHANGED <<clock, last_leaderboard_time, cmds, views, fetchVars, renderVars>>

\* what the caller of fetch_leaderboard_data(key) can see: the value returned
\* or the exception raised, over everything the database may do
FetchReturns(key) ==
    {[raised |-> out.raised, result |-> out.result] :
        out \in {fetch_leaderboard_data(key, DEFAULT_LIMIT, db) : db \in DbBehaviours}}

\* selected_leaderboard = self.values[0];
\* data = await fetch_leaderboard_data(selected_leaderboard)
FetchData(i) ==
    /\ ints[i].pc = "fetch"
    /\ \E selected_leaderboard \in SelectedValues :
         \E out \in FetchReturns(selected_leaderboard) :
           LET rec == [ints[i] EXCEPT !.key = selected_leaderboard,
                                      !.log = Append(@, "fetch")]
           IN  ints' = [ints EXCEPT ![i] =
                          IF out.raised # "" THEN callback_except(rec, "fetch")
                          ELSE [rec EXCEPT !.pc = "format", !.data = out.result]]
    /\ UNCHANGED <<clock, last_leaderboard_time, cmds, views, fetchVars, renderVars>>

\* embed = create_leaderboard_embed(...), up to await interaction.followup.send
FormatEmbed(i) ==
    /\ ints[i].pc = "format"
    /\ ints' = [ints EXCEPT ![i] =
                  IF EmbedRaises(@.key) THEN callback_except(@, "format")
                  ELSE [@ EXCEPT !.pc = "send", !.log = Append(@, "format"),
                                 !.embed = create_leaderboard_embed(ints[i].key, ints[i].data)]]
    /\ UNCHANGED <<clock, last_leaderboard_time, cmds, views, fetchVars, renderVars>>

\* interaction.followup.send(embed=embed) returns or raises
SendDone(i) ==
    /\ ints[i].pc = "send"
    /\ \E ok \in BOOLEAN :
         ints' = [ints EXCEPT ![i] =
                    IF ok THEN [@ EXCEPT !.pc = "done", !.sent = TRUE,
                                         !.log = Append(@, "send")]
                    ELSE callback_except(@, "send")]
    /\ UNCHANGED <<clock, last_leaderboard_time, cmds, views, fetchVars, renderVars>>

\* the send of the failure notice returns or raises; the callback returns
NoticeDone(i) ==
    /\ ints[i].pc = "notice"
    /\ \E ok \in BOOLEAN : ints' = [ints EXCEPT ![i] = notice_result(@, ok)]
    /\ UNCHANGED <<clock, last_leaderboard_time, cmds, views, fetchVars, renderVars>>

\* Commands, views, timeouts and the dispatch of selections.  The later steps
\* of a callback (CallbackNext) read and write nothing but ints and are
\* explored in SpecCallback; none of the steps below reads what they write.
Next ==
    \/ \E c \in Cmds : leaderboards_command(c)
    \/ \E c \in Cmds : NoticeSent(c)
    \/ \E c \in Cmds : MenuSent(c)
    \/ \E v \in Cmds : ViewTimeout(v)
    \/ Tick
    \/ \E i \in Sels : Select(i)
    \/ \E i \in Sels : SelectExpired(i)

Spec == Init /\ [][Next]_vars

\* The callbacks of the selections made on one menu, from the state in which
\* the first invocation was accepted and its menu delivered
CallbackInit ==
    /\ clock = StartTime
    /\ last_leaderboard_time = StartTime
    /\ cmds = [c \in Cmds |-> IF c = 1 THEN [NewCmd EXCEPT !.pc = "done", !.current_time = StartTime,
                                                          !.accepted = TRUE]
                              ELSE NewCmd]
    /\ views = [c \in Cmds |-> IF c = 1 THEN [state |-> "listening", expiry |-> StartTime + VIEW_TIMEOUT,
                                              disabled |-> FALSE]
                               ELSE NoView]
    /\ ints = [i \in Sels |-> NewInt]
    /\ FetchIdle
    /\ RenderIdle

CallbackNext ==
    \/ \E i \in Sels : Select(i)
    \/ \E i \in Sels : DeferDone(i)
    \/ \E i \in Sels : FetchData(i)
    \/ \E i \in Sels : FormatEmbed(i)
    \/ \E i \in Sels : SendDone(i)
    \/ \E i \in Sels : NoticeDone(i)

SpecCallback == CallbackInit /\ [][CallbackNext]_vars

(***************************************************************************)
(* SpecFetch: fetch_leaderboard_data called with any key, limit and        *)
(* database behaviour, MaxFetches times in a row                           *)
(***************************************************************************)
Limits == {1, DEFAULT_LIMIT}

FetchCall ==
    /\ fcalls < MaxFetches
    /\ \E key \in AnyKeys, limit \in Limits, db \in DbBehaviours :
         LET out == fetch_leaderboard_data(key, limit, db)
         IN  /\ fin' = [key |-> key, limit |-> limit, db |-> db]
             /\ fout' = out
             /\ fopen' = fopen + (IF out.conn = "open" THEN 1 ELSE 0)
    /\ fcalls' = fcalls + 1
    /\ UNCHANGED <<ctlVars, renderVars>>

SpecFetch == Init /\ [][FetchCall]_vars

(***************************************************************************)
(* SpecRender: create_leaderboard_embed applied to a key of the registry   *)
(* and a row sequence                                                      *)
(***************************************************************************)
RenderRows ==
    {Row(n, k, l) : n \in {"Ann", "Bo"}, k \in {0, 900, 1500, 12345, 1234567}, l \in {0, 20}}

RenderData == UNION {[1..n -> RenderRows] : n \in 0..MaxRows}

RenderInit ==
    /\ CtlInit
    /\ FetchIdle
    /\ rin \in [key : Keys, data : RenderData]
    /\ rout = NoEmbed

Render ==
    /\ rout = NoEmbed
    /\ rout' = create_leaderboard_embed(rin.key, rin.data)
    /\ UNCHANGED <<ctlVars, fetchVars, rin>>

SpecRender == RenderInit /\ [][Render]_vars

(***************************************************************************)
(* Properties                                                              *)
(***************************************************************************)
Accepted == {c \in Cmds : cmds[c].accepted}

Delivered == {c \in Cmds : cmds[c].accepted /\ cmds[c].pc = "done"}

\* the latest arrival time among the invocations in S, 0 when S is empty
LatestTime(S) ==
    IF S = {} THEN 0
    ELSE CHOOSE t \in {cmds[c].current_time : c \in S} :
            \A c \in S : cmds[c].current_time <= t

\* C1: an invocation arriving less than 300 s after last_leaderboard_time
\* answers with the remaining wait in minutes and seconds and changes neither
\* the timestamp, the views nor any selection's callback, and it never gets a
\* view; an invocation arriving 300 s or more after it is accepted, stamps
\* its own time, creates a view, and the view is live once ctx.send returns.
C1_CooldownGate ==
    [][\A c \in Cmds :
         /\ (cmds[c].pc = "idle" /\ cmds'[c].pc # "idle") =>
              IF clock - last_leaderboard_time < COOLDOWN_SECONDS
              THEN /\ cmds'[c].pc = "sendNotice"
                   /\ ~cmds'[c].accepted
                   /\ cmds'[c].seconds \in 0..59
                   /\ 60 * cmds'[c].minutes + cmds'[c].seconds
                        = COOLDOWN_SECONDS - (clock - last_leaderboard_time)
                   /\ last_leaderboard_time' = last_leaderboard_time
                   /\ views' = views
                   /\ ints' = ints
              ELSE /\ cmds'[c].pc = "sendMenu"
                   /\ cmds'[c].accepted
                   /\ cmds'[c].current_time = clock
                   /\ last_leaderboard_time' = clock
                   /\ views'[c].state = "created"
         /\ (cmds[c].pc # "idle" /\ ~cmds[c].accepted) => views'[c].state = "none"
         /\ (cmds[c].pc = "sendMenu" /\ cmds'[c].pc = "done") => views'[c].state = "listening"
      ]_vars

\* an invocation 200 s after an accepted one was told to wait 1m 40s
C1_Witness ==
    /\ cmds[1].accepted
    /\ cmds[2].pc = "done"
    /\ ~cmds[2].accepted
    /\ cmds[2].current_time - cmds[1].current_time = 200
    /\ cmds[2].minutes = 1
    /\ cmds[2].seconds = 40
    /\ last_leaderboard_time = cmds[1].current_time
    /\ views[2].state = "none"

\* C6 as stated: last_leaderboard_time is 0 or the time of the most recent
\* invocation whose menu was delivered (taken when no menu send is pending).
C6_LastIsLastDeliveredMenu ==
    (\A c \in Cmds : cmds[c].pc # "sendMenu")
        => last_leaderboard_time = LatestTime(Delivered)

\* C6 amended: last_leaderboard_time is 0 while no invocation was accepted,
\* and otherwise the arrival time of the most recent accepted invocation,
\* whether or not its menu message was delivered.
C6_LastIsLastAccepted ==
    last_leaderboard_time = LatestTime(Accepted)

\* an accepted invocation whose menu send failed holds the cooldown
C6_Witness ==
    \E c \in Cmds :
        /\ cmds[c].accepted
        /\ cmds[c].pc = "failed"
        /\ views[c].state = "created"
        /\ last_leaderboard_time = cmds[c].current_time

\* C9: no two accepted invocations arrived less than 300 s apart, whatever
\* the handlers suspended at their ctx.send are doing.
C9_NoTwoAcceptedWithinCooldown ==
    \A c1, c2 \in Cmds :
        (c1 # c2 /\ cmds[c1].accepted /\ cmds[c2].accepted /\
         cmds[c1].current_time <= cmds[c2].current_time)
            => cmds[c2].current_time - cmds[c1].current_time >= COOLDOWN_SECONDS

\* two invocations accepted exactly 300 s apart, the first still suspended
\* at its ctx.send
C9_Witness ==
    /\ cmds[1].accepted
    /\ cmds[1].pc = "sendMenu"
    /\ cmds[2].accepted
    /\ cmds[2].current_time - cmds[1].current_time = COOLDOWN_SECONDS

\* C7: a selection on a live view invokes the callback once and restarts the
\* 300 s limit; a view whose limit ran out is finished with its items
\* disabled, stays so for ever, and a selection on it invokes no callback;
\* a view becomes live only when an accepted invocation's menu is sent.
C7_MenuTimeout ==
    [][\A v \in Cmds :
         /\ views[v].state = "finished" => views'[v] = views[v]
         /\ views'[v].state = "finished" => views'[v].disabled /\ clock' >= views'[v].expiry
         /\ (views[v].state # "listening" /\ views'[v].state = "listening") =>
               /\ cmds[v].pc = "sendMenu"
               /\ cmds[v].accepted
               /\ views'[v].expiry = clock + VIEW_TIMEOUT
         /\ \A i \in Sels :
              (ints[i].pc = "none" /\ ints'[i].pc # "none" /\ ints'[i].view = v) =>
                 IF views[v].state = "listening"
                 THEN /\ ints'[i].pc = "defer"
                      /\ ints'[i].calls = 1
                      /\ clock <= views[v].expiry
                      /\ views'[v].expiry = clock + VIEW_TIMEOUT
                 ELSE /\ views[v].state = "finished"
                      /\ ints'[i].pc = "ignored"
                      /\ ints'[i].calls = 0
      ]_vars

\* on one menu, a selection in time reached the callback and a selection
\* after the timeout did not
C7_Witness ==
    /\ views[1].state = "finished"
    /\ views[1].disabled
    /\ \E i, j \in Sels :
         /\ ints[i].view = 1 /\ ints[i].pc = "defer" /\ ints[i].calls = 1
         /\ ints[j].view = 1 /\ ints[j].pc = "ignored" /\ ints[j].calls = 0

IsPrefix(s, t) == Len(s) <= Len(t) /\ s = SubSeq(t, 1, Len(s))

CallbackOrder == <<"acknowledge", "fetch", "format", "send">>

\* C3: no exception leaves the callback; a callback in which defer, fetch,
\* format or send raised makes exactly one attempt at the failure notice, as
\* the interaction's response when defer had not gone through and as a
\* follow-up when it had, and returns whether or not that attempt succeeds.
C3_ErrorsContained ==
    \A i \in Sels :
        /\ ~ints[i].propagated
        /\ ints[i].pc \in {"none", "ignored", "defer", "fetch", "format", "send", "notice", "done"}
        /\ ints[i].attempts = (IF ints[i].raisedAt = "" THEN 0 ELSE 1)
        /\ ints[i].raisedAt = "acknowledge" => ~ints[i].responded /\ ints[i].via = "response"
        /\ ints[i].raisedAt \in {"fetch", "format", "send"} =>
              ints[i].responded /\ ints[i].via = "followup"
        /\ ints[i].raisedAt = "" => ints[i].via = "" /\ ~ints[i].delivered
        /\ ints[i].pc \in {"notice", "done"} =>
              (ints[i].raisedAt # "" \/ ints[i].sent)
        /\ ~(ints[i].sent /\ ints[i].raisedAt # "")

\* one callback failed at defer and answered through the response, another
\* failed in the fetch, its follow-up notice failed too, and it returned
C3_Witness ==
    \E i, j \in Sels :
        /\ ints[i].pc = "done" /\ ints[i].raisedAt = "acknowledge"
        /\ ints[i].via = "response" /\ ints[i].delivered
        /\ ints[j].pc = "done" /\ ints[j].raisedAt = "fetch"
        /\ ints[j].via = "followup" /\ ~ints[j].delivered

\* C4: in every callback the steps done so far are an initial part of
\* acknowledge, fetch, format, send; nothing is fetched before the defer went
\* through and the leaderboard is sent only after fetch and format.
C4_CallbackOrder ==
    \A i \in Sels :
        /\ IsPrefix(ints[i].log, CallbackOrder)
        /\ ints[i].pc \in {"fetch", "format", "send"} => ints[i].responded
        /\ ints[i].pc = "format" => ints[i].log = SubSeq(CallbackOrder, 1, 2)
        /\ ints[i].pc = "send" => ints[i].log = SubSeq(CallbackOrder, 1, 3)
        /\ ints[i].sent => ints[i].log = CallbackOrder /\ ints[i].embed # NoEmbed
        /\ ints[i].calls <= 1

\* the second selection's leaderboard is out while the first selection's
\* callback, acknowledged earlier, has not fetched yet
C4_Witness ==
    /\ ints[1].pc = "fetch"
    /\ ints[1].log = <<"acknowledge">>
    /\ ints[2].pc = "done"
    /\ ints[2].sent
    /\ ints[2].log = CallbackOrder

\* C2 as stated: fetch_leaderboard_data raises nothing and returns a
\* sequence, empty on every failure.
C2_FetchNeverRaises ==
    fcalls > 0 =>
        /\ fout.raised = ""
        /\ (~HasConfig(fin.key) \/ ~fin.db.connect \/ ~fin.db.cursor
              \/ ~fin.db.execute \/ ~fin.db.fetchall) => fout.result = <<>>

\* C5 as stated: when no fetch is running, no connection a fetch opened is
\* still open, and a fetch opens at most one.
C5_NoConnectionLeftOpen ==
    /\ fopen = 0
    /\ fout.conn # "open"
    /\ fout.opened <= 1

\* the query shape the registry entry of a key calls for
ShapeOf(key) ==
    CASE key = "general" -> "join"
      [] key = "3ull"    -> "user_id"
      [] OTHER           -> "username"

\* C10: for a key of the registry, a call that reaches its cursor runs one
\* query, once, with the limit as its only parameter; the query has the join
\* shape for the entry with join_users, the user_id shape for "3ull" and the
\* username shape for the rest, reads the entry's table and orders by
\* levels_reached then kills, both descending.  A call that returns before
\* the cursor runs none.
C10_QueryShape ==
    (fcalls > 0 /\ fin.key \in Keys) =>
        IF fin.db.connect /\ fin.db.cursor
        THEN /\ Len(fout.executed) = 1
             /\ fout.executed[1].params = <<fin.limit>>
             /\ fout.executed[1].query = fout.query
             /\ fout.query.shape = ShapeOf(fin.key)
             /\ (fout.query.shape = "join") = LEADERBOARDS[fin.key].join_users
             /\ fout.query.from = LEADERBOARDS[fin.key].table
             /\ (fout.query.join # "") = (fout.query.shape = "join")
             /\ fout.query.order_by = <<"levels_reached DESC", "kills DESC">>
             /\ fout.query.limit = "%s"
        ELSE fout.executed = <<>> /\ fout.query = NoQuery

\* the "3ull" leaderboard fetched with limit 10: user_id projected, rows back
C10_Witness ==
    /\ fcalls > 0
    /\ fin.key = "3ull"
    /\ fin.limit = DEFAULT_LIMIT
    /\ Len(fout.executed) = 1
    /\ fout.query.shape = "user_id"
    /\ fout.query.from = "3ull_tournament_leaderboard"
    /\ fout.result # <<>>
    /\ fout.conn = "closed"

FirstIndex(seq, tok) ==
    IF \E j \in 1..Len(seq) : seq[j] = tok
    THEN CHOOSE j \in 1..Len(seq) : seq[j] = tok /\ \A m \in 1..(j - 1) : seq[m] # tok
    ELSE 0

\* the lines of a text, each without its closing newline
RECURSIVE SplitLines(_)
SplitLines(text) ==
    IF text = <<>> THEN <<>>
    ELSE LET n == FirstIndex(text, "\n")
         IN  IF n = 0 THEN <<text>>
             ELSE <<SubSeq(text, 1, n - 1)>> \o SplitLines(SubSeq(text, n + 1, Len(text)))

IsDigits(cs) ==
    cs # <<>> /\ \A j \in 1..Len(cs) : \E d \in 1..10 : cs[j] = DigitChars[d]

RECURSIVE ParseNat(_)
ParseNat(cs) ==
    IF cs = <<>> THEN 0
    ELSE 10 * ParseNat(SubSeq(cs, 1, Len(cs) - 1))
           + ((CHOOSE d \in 1..10 : DigitChars[d] = cs[Len(cs)]) - 1)

NotComma(ch) == ch # ","

\* commas exactly at every fourth place counted from the right
WellGrouped(cs) ==
    /\ Len(cs) % 4 # 0
    /\ \A j \in 1..Len(cs) : (cs[j] = ",") = ((Len(cs) - j + 1) % 4 = 0)

\* line reads "<i>. **<nickname>** - <levels> waves survived, <kills, grouped> enemies destroyed"
RankedLine(line, i, player) ==
    LET a  == FirstIndex(line, ". **")
        b  == FirstIndex(line, " waves survived, ")
        ks == SubSeq(line, b + 1, Len(line) - 1)
    IN  /\ a > 1
        /\ b > a + 3
        /\ Len(line) > b + 1
        /\ IsDigits(SubSeq(line, 1, a - 1))
        /\ ParseNat(SubSeq(line, 1, a - 1)) = i
        /\ line[a + 1] = player.nickname
        /\ line[a + 2] = "** - "
        /\ IsDigits(SubSeq(line, a + 3, b - 1))
        /\ ParseNat(SubSeq(line, a + 3, b - 1)) = player.levels_reached
        /\ line[Len(line)] = " enemies destroyed"
        /\ WellGrouped(ks)
        /\ IsDigits(SelectSeq(ks, NotComma))
        /\ ParseNat(SelectSeq(ks, NotComma)) = player.kills

\* C8: the embed's title is the entry's name; for no rows its description is
\* the "no players" notice and holds no line; for rows it holds one line per
\* row, in the rows' order, line i numbered i and carrying row i's nickname,
\* levels_reached and comma-grouped kills.
C8_Render ==
    rout # NoEmbed =>
        /\ rout.title = LEADERBOARDS[rin.key].name
        /\ rout.footer = "Graveyard Antics TD"
        /\ IF rin.data = <<>>
           THEN /\ rout.description = <<"No players found in this leaderboard.">>
                /\ FirstIndex(rout.description, "\n") = 0
           ELSE LET lines == SplitLines(rout.description)
                IN  /\ Len(lines) = Len(rin.data)
                    /\ rout.description[Len(rout.description)] = "\n"
                    /\ \A i \in 1..Len(lines) : RankedLine(lines[i], i, rin.data[i])
                    /\ FirstIndex(rout.description, "No players found in this leaderboard.") = 0

\* Ann (1500 kills) and Bo (900 kills), both at level 20, on the general board
C8_Witness ==
    /\ rin.key = "general"
    /\ rin.data = <<Row("Ann", 1500, 20), Row("Bo", 900, 20)>>
    /\ rout.title = "General Leaderboard"
    /\ rout.description =
         <<"1", ". **", "Ann", "** - ", "2", "0", " waves survived, ",
           "1", ",", "5", "0", "0", " enemies destroyed", "\n",
           "2", ". **", "Bo", "** - ", "2", "0", " waves survived, ",
           "9", "0", "0", " enemies destroyed", "\n">>

====
